---------------------------- MODULE Spec2Model ----------------------------
(***************************************************************************)
(* A model of strava_local_heatmap.py: main() as a sequential state        *)
(* machine (one action per stage or loop iteration), with the coordinate   *)
(* helpers deg2num, num2deg and deg2xy as operators.                       *)
(*                                                                         *)
(* Numbers.  The program computes in IEEE doubles; the model computes in   *)
(* integers:                                                               *)
(*   - latitudes and longitudes of trackpoints are whole degrees;          *)
(*   - the Mercator ordinate (1 - ln(tan(lat) + sec(lat))/pi)/2 of a       *)
(*     latitude is read from MercatorTable, in units of 2^-24;             *)
(*   - cos(lat) is read from CosTable, in units of 1/1000;                 *)
(*   - density values are kept in units of 1/1000;                         *)
(*   - arctan(sinh(pi (1 - 2 y))) is read from InvTable for the dyadic     *)
(*     ordinates y = k/64, in micro-degrees.                               *)
(* The tables hold the values of the formulas of the source at those       *)
(* arguments.  A tile image is one of the tokens "white" (every pixel      *)
(* (1,1,1)) and "map" (imagery of the tile server).                        *)
(*                                                                         *)
(* Names.  main() reads args.fit_dir and args.fit_year, which the parser   *)
(* of the script does not define, and the name gpx_dir, which is no local  *)
(* of main(): env says whether the caller's namespace and the module's     *)
(* globals supply them.  Where they are missing the run ends with an       *)
(* uncaught exception (pc = "crashed").                                    *)
(***************************************************************************)
EXTENDS Integers, Sequences, FiniteSets, TLC

VARIABLES
  pc,            \* position in main()
  args,          \* the parsed command line (the argparse namespace)
  heatmap_zoom,  \* the local of that name (effective zoom)
  lat_lon_data,  \* sequence of <<lat, lon>>
  nr_activities, \* number of GPX and FIT files found
  range,         \* [xmin, xmax, ymin, ymax]: x_tile_min .. y_tile_max
  tile_count,
  files,         \* tile files written by this run: tile -> image token
  env,           \* names main() finds bound: [fit_attrs, gpx_dir]
  net,           \* the tile cache and tile server of this run (seen at line 222)
  cur,           \* <<x, y>> of the download loop
  fetchLog,      \* history: the download_tile calls issued, in order
  failed,        \* history: tiles whose download_tile call returned False
  supertile,     \* block <<i, j>> -> image token
  data,          \* cell <<r, c>> -> value (units of 1/1000; after normalize: numerator)
  shape,         \* <<rows, cols>> of data
  k,             \* index of the next trackpoint to accumulate
  touched,       \* history: per accumulated point, its pixel <<i, j>>
  m,             \* threshold (units of 1/1000)
  normDen,       \* after normalize: the common denominator max - min (0: every cell is NaN)
  outputs,       \* output files written: subset of {"png", "csv"}
  csvRows,       \* cells exported to the CSV file
  err,           \* the fatal error printed before quit(), "" if none
  rt             \* round-trip record of the coordinate helpers (RoundTrip specification)

vars == <<pc, args, heatmap_zoom, lat_lon_data, nr_activities, range, tile_count,
          files, env, net, cur, fetchLog, failed, supertile, data, shape, k, touched,
          m, normDen, outputs, csvRows, err, rt>>

mainVars == <<pc, args, heatmap_zoom, lat_lon_data, nr_activities, range, tile_count,
              files, env, net, cur, fetchLog, failed, supertile, data, shape, k, touched,
              m, normDen, outputs, csvRows, err>>

-----------------------------------------------------------------------------
(* Program constants *)

MAX_TILE_COUNT == 100

OSM_MAX_ZOOM == 19

(* Bounds of the model *)

\* The program's tile is 256 x 256 pixels; the model's is 2*HalfTile square
\* (even, as 256 is).
HalfTile == 2

OSM_TILE_SIZE == 2 * HalfTile

\* Longest sequence of trackpoints read from the GPX files.
MaxPoints == 2

\* Largest --sigma.
MaxSigma == 1

\* Largest zoom of the round-trip specification (InvTable reaches zoom 6).
MaxRtZoom == 4

-----------------------------------------------------------------------------
(* Tables of the transcendental functions *)

\* floor(2^24 * (1 - ln(tan(lat) + 1/cos(lat))/pi)/2) for lat = -84 .. 84 degrees
MercatorTable ==
  <<16262159, 15849667, 15492095, 15176439, 14893815, 14637891, 14403989, 14188557,
    13988833, 13802630, 13628181, 13464044, 13309023, 13162115, 13022473, 12889373,
    12762193, 12640393, 12523502, 12411107, 12302842, 12198384, 12097446, 11999768,
    11905118, 11813288, 11724087, 11637344, 11552902, 11470618, 11390359, 11312007,
    11235448, 11160581, 11087310, 11015549, 10945213, 10876229, 10808523, 10742031,
    10676689, 10612439, 10549227, 10487001, 10425711, 10365313, 10305762, 10247019,
    10189042, 10131797, 10075246, 10019358, 9964100, 9909441, 9855352, 9801806,
    9748775, 9696234, 9644159, 9592524, 9541309, 9490490, 9440046, 9389956,
    9340201, 9290761, 9241618, 9192752, 9144146, 9095783, 9047646, 8999718,
    8951982, 8904423, 8857025, 8809773, 8762652, 8715646, 8668740, 8621921,
    8575173, 8528482, 8481833, 8435213, 8388608, 8342002, 8295382, 8248733,
    8202042, 8155294, 8108475, 8061569, 8014563, 7967442, 7920190, 7872792,
    7825233, 7777497, 7729569, 7681432, 7633069, 7584463, 7535597, 7486454,
    7437014, 7387259, 7337169, 7286725, 7235906, 7184691, 7133056, 7080981,
    7028440, 6975409, 6921863, 6867774, 6813115, 6757857, 6701969, 6645418,
    6588173, 6530196, 6471453, 6411902, 6351504, 6290214, 6227988, 6164776,
    6100526, 6035184, 5968692, 5900986, 5832002, 5761666, 5689905, 5616634,
    5541767, 5465208, 5386856, 5306597, 5224313, 5139871, 5053128, 4963927,
    4872097, 4777447, 4679769, 4578831, 4474373, 4366108, 4253713, 4136822,
    4015022, 3887842, 3754742, 3615100, 3468192, 3313171, 3149034, 2974585,
    2788382, 2588658, 2373226, 2139324, 1883400, 1600776, 1285120, 927548,
    515056>>

\* round(1000 * cos(lat)) for lat = -84 .. 84 degrees
CosTable ==
  <<105, 122, 139, 156, 174, 191, 208, 225, 242, 259, 276, 292,
    309, 326, 342, 358, 375, 391, 407, 423, 438, 454, 469, 485,
    500, 515, 530, 545, 559, 574, 588, 602, 616, 629, 643, 656,
    669, 682, 695, 707, 719, 731, 743, 755, 766, 777, 788, 799,
    809, 819, 829, 839, 848, 857, 866, 875, 883, 891, 899, 906,
    914, 921, 927, 934, 940, 946, 951, 956, 961, 966, 970, 974,
    978, 982, 985, 988, 990, 993, 995, 996, 998, 999, 999, 1000,
    1000, 1000, 999, 999, 998, 996, 995, 993, 990, 988, 985, 982,
    978, 974, 970, 966, 961, 956, 951, 946, 940, 934, 927, 921,
    914, 906, 899, 891, 883, 875, 866, 857, 848, 839, 829, 819,
    809, 799, 788, 777, 766, 755, 743, 731, 719, 707, 695, 682,
    669, 656, 643, 629, 616, 602, 588, 574, 559, 545, 530, 515,
    500, 485, 469, 454, 438, 423, 407, 391, 375, 358, 342, 326,
    309, 292, 276, 259, 242, 225, 208, 191, 174, 156, 139, 122,
    105>>

\* round(10^6 * degrees(arctan(sinh(pi * (1 - 2*k/64))))) for k = 0 .. 64
InvTable ==
  <<85051129, 84541361, 83979259, 83359511, 82676285, 81923186, 81093214, 80178713,
    79171335, 78061989, 76840816, 75497157, 74019543, 72395706, 70612614, 68656555,
    66513260, 64168107, 61606396, 58813742, 55776573, 52482780, 48922499, 45089036,
    40979898, 36597889, 31952162, 27059126, 21943046, 16636192, 11178402, 5615986,
    0, -5615986, -11178402, -16636192, -21943046, -27059126, -31952162, -36597889,
    -40979898, -45089036, -48922499, -52482780, -55776573, -58813742, -61606396, -64168107,
    -66513260, -68656555, -70612614, -72395706, -74019543, -75497157, -76840816, -78061989,
    -79171335, -80178713, -81093214, -81923186, -82676285, -83359511, -83979259, -84541361,
    -85051129>>

Lats == -84 .. 84

MercY(lat) == MercatorTable[lat + 85]

CosMilli(lat) == CosTable[lat + 85]

-----------------------------------------------------------------------------
(* Arithmetic helpers *)

\* Python's int() of the quotient num/den (den > 0): truncation toward zero.
PyInt(num, den) == IF num >= 0 THEN num \div den ELSE -((-num) \div den)

\* int(np.round(num/den)) for num >= 0, den > 0: round half to even.
PyRound(num, den) ==
  LET q == num \div den
      r == num % den
  IN  IF 2 * r < den THEN q
      ELSE IF 2 * r > den THEN q + 1
      ELSE IF q % 2 = 0 THEN q ELSE q + 1

Min(S) == CHOOSE x \in S : \A y \in S : x <= y

Max(S) == CHOOSE x \in S : \A y \in S : x >= y

\* int(np.sqrt(x)) for x >= 0
ISqrt(x) == CHOOSE s \in 0 .. x : s * s <= x /\ (s + 1) * (s + 1) > x

-----------------------------------------------------------------------------
(* Tile coordinate math *)

\* deg2xy: the global coordinates as fractions xnum/xden, ynum/yden, with
\* n = 2.0 ** zoom (zoom may be negative: the program does not reject it).
deg2xy(lat_deg, lon_deg, zoom) ==
  [xnum |-> IF zoom >= 0 THEN (lon_deg + 180) * 2^zoom ELSE lon_deg + 180,
   xden |-> IF zoom >= 0 THEN 360 ELSE 360 * 2^(-zoom),
   ynum |-> MercY(lat_deg),
   yden |-> 2^(24 - zoom)]

\* a tile index rounded to the nearest integer instead of truncated
deg2num_rounded(lat_deg, lon_deg, zoom) ==
  LET p == deg2xy(lat_deg, lon_deg, zoom)
  IN  <<PyRound(p.xnum, p.xden), PyRound(p.ynum, p.yden)>>

\* deg2num: <<xtile, ytile>>, each the int() of the global coordinate
deg2num(lat_deg, lon_deg, zoom) ==
  LET p == deg2xy(lat_deg, lon_deg, zoom)
  IN  <<PyInt(p.xnum, p.xden), PyInt(p.ynum, p.yden)>>

\* num2deg for whole tile indices and 0 <= zoom <= 6: <<lat, lon>> in micro-degrees
num2deg(xtile, ytile, zoom) ==
  <<InvTable[ytile * 2^(6 - zoom) + 1],
    xtile * (360000000 \div 2^zoom) - 180000000>>

-----------------------------------------------------------------------------
(* Inputs *)

\* Trackpoints the GPX files may hold: one far to the north-west, two
\* close to one another, (0, 0) being a corner of its tile from zoom 1 on.
Candidates == { <<80, -170>>, <<0, 0>>, <<-11, 11>> }

TrackSeqs == UNION { [1 .. n -> Candidates] : n \in 0 .. MaxPoints }

\* --zoom (type int, not range-checked by the parser)
ZoomChoices == { -1, 0, 1, 5, 20 }

\* --bound lat_min lat_max lon_min lon_max: the default and a crop box
BoundChoices == { <<-90, 90, -180, 180>>, <<-11, 20, -20, 20>> }

ArgChoices ==
  [zoom : ZoomChoices, sigma : 0 .. MaxSigma, nocdist : BOOLEAN, csv : BOOLEAN,
   bound : BoundChoices]

\* The cache and the server: "up" (nothing cached, every download succeeds),
\* "down" (nothing cached, every download fails), "mixed" (tiles with x + y
\* even are cached; of the others, those with x odd fail to download).
NetChoices == { "up", "down", "mixed" }

-----------------------------------------------------------------------------
(* main(): lines 151-339 *)

\* a quit() that saves the image on its way out
Quit_flush(reason) ==
  /\ pc' = "quit"
  /\ err' = reason
  /\ outputs' = outputs \cup {"png"}
  /\ UNCHANGED csvRows

\* quit() after a fatal error message: the interpreter exits, nothing is written
Quit(reason) ==
  /\ pc' = "quit"
  /\ err' = reason
  /\ UNCHANGED <<outputs, csvRows>>

\* an uncaught exception ends main()
Crash(exc) ==
  /\ pc' = "crashed"
  /\ err' = exc
  /\ UNCHANGED <<outputs, csvRows>>

\* lines 166-167
ClampZoom(zoom) == IF zoom > OSM_MAX_ZOOM THEN OSM_MAX_ZOOM ELSE zoom

\* lines 153-167: read the namespace, clamp the zoom.  args.fit_dir and
\* args.fit_year are read at lines 156 and 158; a namespace without them
\* (the parser of lines 343-358 adds neither) raises AttributeError.
ParseArgs ==
  /\ pc = "start"
  /\ IF env.fit_attrs
       THEN /\ heatmap_zoom' = ClampZoom(args.zoom)
            /\ pc' = "cmap"
            /\ UNCHANGED <<err, outputs, csvRows>>
       ELSE /\ Crash("AttributeError")
            /\ UNCHANGED heatmap_zoom
  /\ UNCHANGED <<args, lat_lon_data, nr_activities, range, tile_count, files, env,
                 net, cur, fetchLog, failed, supertile, data, shape, k, touched, m,
                 normDen, rt>>

\* lines 169-174
GetCmap ==
  /\ pc = "cmap"
  /\ \E found \in BOOLEAN :
        IF found
          THEN pc' = "load" /\ UNCHANGED <<err, outputs, csvRows>>
          ELSE Quit("colormap")
  /\ UNCHANGED <<args, heatmap_zoom, lat_lon_data, nr_activities, range, tile_count,
                 files, env, net, cur, fetchLog, failed, supertile, data, shape, k,
                 touched, m, normDen, rt>>

\* lines 178-192.  gpx_dir (line 181) is no local of main(): unless the module
\* has a global of that name the call raises NameError.  get_lat_lon_from_fit
\* returns no point and the number of FIT files.
LoadData ==
  /\ pc = "load"
  /\ IF env.gpx_dir
       THEN \E pts \in TrackSeqs, nr_fit_files \in 0 .. 1 :
              /\ lat_lon_data' = pts
              /\ nr_activities' = (IF pts = << >> THEN 0 ELSE 1) + nr_fit_files
              /\ IF pts = << >>
                   THEN Quit("nodata")
                   ELSE pc' = "crop" /\ UNCHANGED <<err, outputs, csvRows>>
       ELSE /\ Crash("NameError")
            /\ UNCHANGED <<lat_lon_data, nr_activities>>
  /\ UNCHANGED <<args, heatmap_zoom, range, tile_count, files, env, net, cur,
                 fetchLog, failed, supertile, data, shape, k, touched, m, normDen, rt>>

\* lines 199-200
Crop(pts, b) ==
  SelectSeq(SelectSeq(pts, LAMBDA q : q[1] > b[1] /\ q[1] < b[2]),
            LAMBDA q : q[2] > b[3] /\ q[2] < b[4])

\* lines 196-204
CropData ==
  /\ pc = "crop"
  /\ lat_lon_data' = Crop(lat_lon_data, args.bound)
  /\ IF lat_lon_data' = << >>
       THEN Quit("bound")
       ELSE pc' = "range" /\ UNCHANGED <<err, outputs, csvRows>>
  /\ UNCHANGED <<args, heatmap_zoom, nr_activities, range, tile_count, files, env,
                 net, cur, fetchLog, failed, supertile, data, shape, k, touched, m,
                 normDen, rt>>

\* lines 207-213
TileRangeOf(pts, zoom) ==
  LET lats == { pts[n][1] : n \in 1 .. Len(pts) }
      lons == { pts[n][2] : n \in 1 .. Len(pts) }
      lo   == deg2num(Min(lats), Min(lons), zoom)
      hi   == deg2num(Max(lats), Max(lons), zoom)
  IN  [xmin |-> lo[1], ymax |-> lo[2], xmax |-> hi[1], ymin |-> hi[2]]

Cols(r) == r.xmax - r.xmin + 1

Rows(r) == r.ymax - r.ymin + 1

\* line 215.  Python's integers are unbounded, TLC's have 32 bits: a product
\* with a factor above 2^15 is recorded as 2^30.
TileCount(r) ==
  IF Cols(r) > 2^15 \/ Rows(r) > 2^15 THEN 2^30 ELSE Cols(r) * Rows(r)

\* a gate that lets every range through
TooManyTiles_never(n) == FALSE

\* line 217
TooManyTiles(n) == n > MAX_TILE_COUNT

\* lines 207-225: the tile range, the gate, the tiles directory, the loop start
TileRange ==
  /\ pc = "range"
  /\ range' = TileRangeOf(lat_lon_data, heatmap_zoom)
  /\ tile_count' = TileCount(range')
  /\ IF TooManyTiles(tile_count')
       THEN /\ Quit("zoom")
            /\ UNCHANGED <<net, cur>>
       ELSE /\ pc' = "download"
            /\ net' \in NetChoices
            /\ cur' = <<range'.xmin, range'.ymin>>
            /\ UNCHANGED <<err, outputs, csvRows>>
  /\ UNCHANGED <<args, heatmap_zoom, lat_lon_data, nr_activities, files, env,
                 fetchLog, failed, supertile, data, shape, k, touched, m, normDen, rt>>

\* the tiles/ directory as it was when main() started
CachedBefore(t) == net = "mixed" /\ (t[1] + t[2]) % 2 = 0

\* glob.glob(tile_file), line 232
HasTileFile(t) == CachedBefore(t) \/ t \in DOMAIN files

\* plt.imread(tile_filename), line 253
TileImage(t) == IF t \in DOMAIN files THEN files[t] ELSE "map"

\* download_tile, lines 83-108: True iff urlopen raised no URLError
DownloadOk(t) == net = "up" \/ (net = "mixed" /\ t[1] % 2 = 0)

\* a loop that downloads whether or not the file is there
ShouldFetch_always(t) == TRUE

\* line 232
ShouldFetch(t) == ~HasTileFile(t)

\* np.zeros in place of np.ones
FallbackImage_zeros == "black"

\* line 238: np.ones((OSM_TILE_SIZE, OSM_TILE_SIZE, 3))
FallbackImage == "white"

\* the loop header of lines 226-227: the tile after t, or "end"
NextTile(t) ==
  IF t[2] < range.ymax THEN <<t[1], t[2] + 1>>
  ELSE IF t[1] < range.xmax THEN <<t[1] + 1, range.ymin>>
  ELSE <<range.xmax + 1, range.ymin>>

\* lines 226-240: one iteration of the download loop
Download ==
  /\ pc = "download"
  /\ cur[1] <= range.xmax
  /\ IF ShouldFetch(cur)
       THEN /\ fetchLog' = Append(fetchLog, [tile |-> cur, present |-> HasTileFile(cur)])
            /\ IF DownloadOk(cur)
                 THEN /\ files' = (cur :> "map") @@ files
                      /\ UNCHANGED failed
                 ELSE /\ files' = (cur :> FallbackImage) @@ files
                      /\ failed' = failed \cup {cur}
       ELSE UNCHANGED <<fetchLog, files, failed>>
  /\ cur' = NextTile(cur)
  /\ UNCHANGED <<pc, args, heatmap_zoom, lat_lon_data, nr_activities, range,
                 tile_count, env, net, supertile, data, shape, k, touched, m,
                 normDen, outputs, csvRows, err, rt>>

TilesOf(r) == (r.xmin .. r.xmax) \X (r.ymin .. r.ymax)

\* lines 245-258: read every tile file into its block of the supertile;
\* plt.imread of a file that does not exist raises FileNotFoundError
Assemble ==
  /\ pc = "download"
  /\ cur[1] > range.xmax
  /\ IF \A t \in TilesOf(range) : HasTileFile(t)
       THEN /\ supertile' = [b \in (0 .. Rows(range) - 1) \X (0 .. Cols(range) - 1) |->
                               TileImage(<<range.xmin + b[2], range.ymin + b[1]>>)]
            /\ pc' = "gray"
            /\ UNCHANGED <<err, outputs, csvRows>>
       ELSE /\ Crash("FileNotFoundError")
            /\ UNCHANGED supertile
  /\ UNCHANGED <<args, heatmap_zoom, lat_lon_data, nr_activities, range, tile_count,
                 files, env, net, cur, fetchLog, failed, data, shape, k, touched, m,
                 normDen, rt>>

\* lines 261-263 on a uniform image: luminance, then 1 - luminance
Invert(img) ==
  IF img = "white" THEN "black" ELSE IF img = "black" THEN "white" ELSE "map_inverted"

\* line 245, supertile_size[:2]
MosaicShape(r) == <<Rows(r) * OSM_TILE_SIZE, Cols(r) * OSM_TILE_SIZE>>

Cells(sh) == (0 .. sh[1] - 1) \X (0 .. sh[2] - 1)

\* lines 261-270: grayscale and invert the supertile; data = zeros
Gray ==
  /\ pc = "gray"
  /\ supertile' = [b \in DOMAIN supertile |-> Invert(supertile[b])]
  /\ shape' = MosaicShape(range)
  /\ data' = [c \in Cells(shape') |-> 0]
  /\ k' = 1
  /\ pc' = "accumulate"
  /\ UNCHANGED <<args, heatmap_zoom, lat_lon_data, nr_activities, range, tile_count,
                 files, env, net, cur, fetchLog, failed, touched, m, normDen, outputs,
                 csvRows, err, rt>>

\* lines 273-276: the pixel <<i, j>> of a trackpoint in the supertile
PixelOf(q, zoom, r) ==
  LET g == deg2xy(q[1], q[2], zoom)
  IN  <<PyRound((g.ynum - r.ymin * g.yden) * OSM_TILE_SIZE, g.yden),
        PyRound((g.xnum - r.xmin * g.xden) * OSM_TILE_SIZE, g.xden)>>

\* the indices Python's a[start:stop] selects of an axis of length n
PySlice(start, stop, n) ==
  LET lo == IF start < 0 THEN (IF start + n < 0 THEN 0 ELSE start + n)
            ELSE (IF start > n THEN n ELSE start)
      hi == IF stop < 0 THEN (IF stop + n < 0 THEN 0 ELSE stop + n)
            ELSE (IF stop > n THEN n ELSE stop)
  IN  lo .. hi - 1

\* line 278: data[i-w:i+w+1, j-w:j+w+1] += 1 (values in units of 1/1000)
AddSquare(d, sh, px, w) ==
  LET rs == PySlice(px[1] - w, px[1] + w + 1, sh[1])
      cs == PySlice(px[2] - w, px[2] + w + 1, sh[2])
  IN  [c \in DOMAIN d |-> IF c[1] \in rs /\ c[2] \in cs THEN d[c] + 1000 ELSE d[c]]

\* lines 272-278: one iteration of the accumulation loop
Accumulate ==
  /\ pc = "accumulate"
  /\ k <= Len(lat_lon_data)
  /\ LET px == PixelOf(lat_lon_data[k], heatmap_zoom, range)
     IN  /\ data' = AddSquare(data, shape, px, args.sigma)
         /\ touched' = Append(touched, px)
  /\ k' = k + 1
  /\ UNCHANGED <<pc, args, heatmap_zoom, lat_lon_data, nr_activities, range,
                 tile_count, files, env, net, cur, fetchLog, failed, supertile, shape,
                 m, normDen, outputs, csvRows, err, rt>>

RECURSIVE SumSeq(_)
SumSeq(q) == IF q = << >> THEN 0 ELSE Head(q) + SumSeq(Tail(q))

\* np.mean(lat_lon_data[:, 0]), to the whole degree below (CosTable's step)
MeanLat(pts) == SumSeq([n \in 1 .. Len(pts) |-> pts[n][1]]) \div Len(pts)

\* lines 281-287, in units of 1/1000 (156543.03 taken as 156543)
ThresholdM(nocdist, pts, zoom, nr) ==
  IF nocdist THEN 1000
  ELSE LET base == ((156543 * CosMilli(MeanLat(pts))) \div 5) * nr
       IN  IF zoom >= 0 THEN base \div 2^zoom ELSE base * 2^(-zoom)

\* no thresholding
Clamp_none(v, mx) == v

\* line 289: data[data > m] = m
Clamp(v, mx) == IF v > mx THEN mx ELSE v

ThresholdField(d, mx) == [c \in DOMAIN d |-> Clamp(d[c], mx)]

\* lines 281-289
Threshold ==
  /\ pc = "accumulate"
  /\ k > Len(lat_lon_data)
  /\ m' = ThresholdM(args.nocdist, lat_lon_data, heatmap_zoom, nr_activities)
  /\ data' = ThresholdField(data, m')
  /\ pc' = "smooth"
  /\ UNCHANGED <<args, heatmap_zoom, lat_lon_data, nr_activities, range, tile_count,
                 files, env, net, cur, fetchLog, failed, supertile, shape, k, touched,
                 normDen, outputs, csvRows, err, rt>>

RECURSIVE SumCols(_, _, _, _, _)
\* the sum of b cells of row r of the image, from column c leftwards, circularly
SumCols(image, sh, r, c, b) ==
  IF b = 0 THEN 0
  ELSE image[<<r, (c - (b - 1)) % sh[2]>>] + SumCols(image, sh, r, c, b - 1)

RECURSIVE SumRows(_, _, _, _, _, _)
\* the sum of the a x b cells of the image up and left of cell <<r, c>>, circularly
SumRows(image, sh, r, c, a, b) ==
  IF a = 0 THEN 0
  ELSE SumCols(image, sh, (r - (a - 1)) % sh[1], c, b) + SumRows(image, sh, r, c, a - 1, b)

\* line 292
FilterWidth(sigma) == ISqrt(12 * sigma * sigma + 1)

\* irfft2 of an H x (W div 2 + 1) spectrum is H x 2*(W div 2)
FilterShape(sh) == <<sh[1], 2 * (sh[2] \div 2)>>

\* box_filter, lines 72-80: the circular convolution of the image with the
\* w_box x w_box box, the box cut to the image's shape by rfft2(box, s = ...).
\* The common factor 1/w_box^2 is left out: the result is in units of
\* 1/(1000 w_box^2).
box_filter(image, sh, w_box) ==
  LET bh == IF w_box > sh[1] THEN sh[1] ELSE w_box
      bw == IF w_box > sh[2] THEN sh[2] ELSE w_box
  IN  [c \in Cells(FilterShape(sh)) |-> SumRows(image, sh, c[1], c[2], bh, bw)]

\* lines 292-294
Smooth ==
  /\ pc = "smooth"
  /\ data' = box_filter(data, shape, FilterWidth(args.sigma))
  /\ shape' = FilterShape(shape)
  /\ pc' = "normalize"
  /\ UNCHANGED <<args, heatmap_zoom, lat_lon_data, nr_activities, range, tile_count,
                 files, env, net, cur, fetchLog, failed, supertile, k, touched, m,
                 normDen, outputs, csvRows, err, rt>>

FieldMin(d) == Min({ d[c] : c \in DOMAIN d })

FieldMax(d) == Max({ d[c] : c \in DOMAIN d })

\* a numerator that keeps the minimum
NormNum_nomin(v, lo) == v

\* line 297: the numerator data - data.min() of a cell
NormNum(v, lo) == v - lo

\* line 297: the denominator data.max() - data.min(); numpy divides by it
\* whatever it is, and 0.0/0.0 is NaN
NormDen(d) == FieldMax(d) - FieldMin(d)

\* line 297: the numerators of data
NormField(d) ==
  LET lo == FieldMin(d) IN [c \in DOMAIN d |-> NormNum(d[c], lo)]

\* line 297
Normalize ==
  /\ pc = "normalize"
  /\ data' = NormField(data)
  /\ normDen' = NormDen(data)
  /\ pc' = "save"
  /\ UNCHANGED <<args, heatmap_zoom, lat_lon_data, nr_activities, range, tile_count,
                 files, env, net, cur, fetchLog, failed, supertile, shape, k, touched,
                 m, outputs, csvRows, err, rt>>

\* lines 299-318: colorize, overlay, save the PNG (cmap maps NaN to its
\* "bad" colour: no exception)
SaveImage ==
  /\ pc = "save"
  /\ outputs' = outputs \cup {"png"}
  /\ pc' = IF args.csv THEN "csv" ELSE "done"
  /\ UNCHANGED <<args, heatmap_zoom, lat_lon_data, nr_activities, range, tile_count,
                 files, env, net, cur, fetchLog, failed, supertile, data, shape, k,
                 touched, m, normDen, csvRows, err, rt>>

\* line 331: data[i, j] > 0.1 (False for NaN)
Visible(num, dn) == dn > 0 /\ 10 * num > dn

\* lines 321-337: a row for every cell above 0.1
SaveCsv ==
  /\ pc = "csv"
  /\ outputs' = outputs \cup {"csv"}
  /\ csvRows' = { c \in DOMAIN data : Visible(data[c], normDen) }
  /\ pc' = "done"
  /\ UNCHANGED <<args, heatmap_zoom, lat_lon_data, nr_activities, range, tile_count,
                 files, env, net, cur, fetchLog, failed, supertile, data, shape, k,
                 touched, m, normDen, err, rt>>

-----------------------------------------------------------------------------
(* Specification of main() *)

\* the locals of main() before they are assigned
Unassigned ==
  /\ heatmap_zoom = 0
  /\ lat_lon_data = << >>
  /\ nr_activities = 0
  /\ range = [xmin |-> 0, ymax |-> 0, xmax |-> 0, ymin |-> 0]
  /\ tile_count = 0
  /\ files = [t \in {} |-> "map"]
  /\ net = "unseen"
  /\ cur = <<0, 0>>
  /\ fetchLog = << >>
  /\ failed = {}
  /\ supertile = [b \in {} |-> "map"]
  /\ data = [c \in {} |-> 0]
  /\ shape = <<0, 0>>
  /\ k = 0
  /\ touched = << >>
  /\ m = 0
  /\ normDen = 0
  /\ outputs = {}
  /\ csvRows = {}
  /\ err = ""

Init ==
  /\ pc = "start"
  /\ args \in ArgChoices
  /\ env \in [fit_attrs : BOOLEAN, gpx_dir : BOOLEAN]
  /\ Unassigned
  /\ rt = [pc |-> "off"]

Next ==
  \/ ParseArgs
  \/ GetCmap
  \/ LoadData
  \/ CropData
  \/ TileRange
  \/ Download
  \/ Assemble
  \/ Gray
  \/ Accumulate
  \/ Threshold
  \/ Smooth
  \/ Normalize
  \/ SaveImage
  \/ SaveCsv

Spec == Init /\ [][Next]_vars

-----------------------------------------------------------------------------
(* Specification of the coordinate round trip: deg2num, then num2deg *)

RtLons ==
  { -180, -179, -136, -135, -91, -90, -46, -45, -1, 0, 1, 44, 45, 89, 90, 134,
    135, 178, 179 }

InitRT ==
  /\ pc = "off"
  /\ args = [zoom |-> 0, sigma |-> 0, nocdist |-> FALSE, csv |-> FALSE,
             bound |-> <<-90, 90, -180, 180>>]
  /\ env = [fit_attrs |-> FALSE, gpx_dir |-> FALSE]
  /\ Unassigned
  /\ rt \in [pc : {"in"}, lat : Lats, lon : RtLons, zoom : 0 .. MaxRtZoom,
             tile : {<<0, 0>>}, deg : {<<0, 0>>}]

RtToTile ==
  /\ rt.pc = "in"
  /\ rt' = [rt EXCEPT !.pc = "tile", !.tile = deg2num(rt.lat, rt.lon, rt.zoom)]
  /\ UNCHANGED mainVars

RtToDeg ==
  /\ rt.pc = "tile"
  /\ rt' = [rt EXCEPT !.pc = "deg", !.deg = num2deg(rt.tile[1], rt.tile[2], rt.zoom)]
  /\ UNCHANGED mainVars

NextRT == RtToTile \/ RtToDeg

SpecRT == InitRT /\ [][NextRT]_vars

-----------------------------------------------------------------------------
(* Properties *)

\* C1: a tile range of more than MAX_TILE_COUNT tiles ends the run with the
\* 'zoom value too high' error before any download_tile call, and a
\* download_tile call happens only in a run of at most MAX_TILE_COUNT tiles.
C1_TileGate ==
  /\ tile_count > MAX_TILE_COUNT => pc = "quit" /\ err = "zoom" /\ fetchLog = << >>
  /\ fetchLog # << >> => tile_count <= MAX_TILE_COUNT

C1_Witness ==
  /\ pc = "quit"
  /\ err = "zoom"
  /\ tile_count > MAX_TILE_COUNT
  /\ Len(lat_lon_data) > 1

\* C2: a run that ends in a fatal error (colormap, no data, nothing left
\* after the crop, too many tiles) has written neither the PNG nor the CSV.
C2_NoOutputOnFatal ==
  pc = "quit" => outputs = {} /\ csvRows = {}

C2_Witness ==
  /\ pc = "quit"
  /\ err = "bound"
  /\ outputs = {}

\* C3: a failed download does not end the run; the tile gets the all-white
\* image, the loop goes on, every tile of the range has a file when the loop
\* is over, and the block of a failed tile is white before the inversion.
C3_WhiteFallback ==
  /\ failed # {} => pc \notin {"quit", "crashed"}
  /\ \A t \in failed : t \in DOMAIN files /\ files[t] = "white"
  /\ (pc = "download" /\ cur[1] > range.xmax) =>
        \A t \in TilesOf(range) : HasTileFile(t)
  /\ pc = "gray" =>
        /\ DOMAIN supertile = (0 .. Rows(range) - 1) \X (0 .. Cols(range) - 1)
        /\ \A t \in failed :
              supertile[<<t[2] - range.ymin, t[1] - range.xmin>>] = "white"

C3_Witness ==
  /\ pc = "gray"
  /\ failed # {}
  /\ failed # TilesOf(range)

Abs(x) == IF x < 0 THEN -x ELSE x

\* C4: after each accumulated point, a cell holds the number of points so
\* far whose (2p+1)-square, p = int(sigma), contains it: the part of a
\* square inside the field is counted, at every edge (stated for the runs
\* with a requested zoom in 0 .. 19).
C4_ClippedSquare ==
  (pc = "accumulate" /\ args.zoom \in 0 .. OSM_MAX_ZOOM) =>
    \A c \in DOMAIN data :
      data[c] = 1000 * Cardinality({ n \in 1 .. Len(touched) :
                                       /\ Abs(c[1] - touched[n][1]) <= args.sigma
                                       /\ Abs(c[2] - touched[n][2]) <= args.sigma })

\* 0.0/0.0: the value of a cell whose numerator and denominator are both 0
IsNaN(num, dn) == dn = 0

\* C5: a degenerate smoothed field (max = min) is normalized to zeros, every
\* value defined (stated for the runs with a requested zoom in 0 .. 19).
C5_DegenerateIsZero ==
  (pc \in {"save", "csv", "done"} /\ normDen = 0 /\ args.zoom \in 0 .. OSM_MAX_ZOOM) =>
    \A c \in DOMAIN data : ~IsNaN(data[c], normDen) /\ data[c] = 0

RECURSIVE AccumulateAll(_, _, _, _, _)
\* lines 268-278 as a function of the point sequence
AccumulateAll(pts, zoom, r, sh, w) ==
  IF pts = << >> THEN [c \in Cells(sh) |-> 0]
  ELSE AddSquare(AccumulateAll(SubSeq(pts, 1, Len(pts) - 1), zoom, r, sh, w), sh,
                 PixelOf(pts[Len(pts)], zoom, r), w)

\* C6: in uniform mode the thresholded field is 0/1-valued and is the field
\* of the same sequence with any of its points accumulated once more.
C6_UniformIdempotent ==
  (pc = "smooth" /\ args.nocdist) =>
    /\ \A c \in DOMAIN data : data[c] \in {0, 1000}
    /\ \A n \in 1 .. Len(lat_lon_data) :
          ThresholdField(AccumulateAll(Append(lat_lon_data, lat_lon_data[n]),
                                       heatmap_zoom, range, shape, args.sigma),
                         ThresholdM(TRUE, lat_lon_data, heatmap_zoom, nr_activities))
            = data

C6_Witness ==
  /\ pc = "smooth"
  /\ args.nocdist
  /\ Len(touched) > 1
  /\ touched[1] = touched[2]
  /\ \E c \in DOMAIN data : data[c] = 1000

\* C7: a non-degenerate smoothed field is normalized into [0, 1], with a cell
\* at 0 and a cell at 1, and has the mosaic's dimensions.
C7_NormalizedRange ==
  (pc \in {"save", "csv", "done"} /\ normDen # 0) =>
    /\ \A c \in DOMAIN data : 0 <= data[c] /\ data[c] <= normDen
    /\ \E c \in DOMAIN data : data[c] = 0
    /\ \E c \in DOMAIN data : data[c] = normDen
    /\ shape = MosaicShape(range)
    /\ DOMAIN data = Cells(MosaicShape(range))

C7_Witness ==
  /\ pc = "save"
  /\ normDen > 0
  /\ \E c \in DOMAIN data : 0 < data[c] /\ data[c] < normDen

\* C8: the effective zoom is 19 for a requested zoom above 19, the requested
\* zoom for one in 0 .. 19, and always in 0 .. 19.
C8_EffectiveZoom ==
  pc \notin {"start", "crashed", "off"} =>
    /\ args.zoom > OSM_MAX_ZOOM => heatmap_zoom = OSM_MAX_ZOOM
    /\ args.zoom \in 0 .. OSM_MAX_ZOOM => heatmap_zoom = args.zoom
    /\ heatmap_zoom \in 0 .. OSM_MAX_ZOOM

\* C9: download_tile is called only for a tile without a cache file at that
\* moment, and at most once for a tile.
C9_FetchOnlyMissing ==
  /\ \A n \in 1 .. Len(fetchLog) :
        ~fetchLog[n].present /\ ~CachedBefore(fetchLog[n].tile)
  /\ \A a, b \in 1 .. Len(fetchLog) : a # b => fetchLog[a].tile # fetchLog[b].tile

C9_Witness ==
  /\ pc = "gray"
  /\ Len(fetchLog) > 0
  /\ \E t \in TilesOf(range) : CachedBefore(t)

\* C10: num2deg(deg2num(lat, lon, z), z) is the north-west corner of the tile
\* that holds (lat, lon): west of it by less than 360/2^z degrees, north of
\* it by less than the tile's latitude span.
C10_RoundTrip ==
  rt.pc = "deg" =>
    LET south == num2deg(rt.tile[1], rt.tile[2] + 1, rt.zoom)[1]
    IN  /\ 0 <= rt.lon * 1000000 - rt.deg[2]
        /\ rt.lon * 1000000 - rt.deg[2] < 360000000 \div 2^(rt.zoom)
        /\ 0 <= rt.deg[1] - rt.lat * 1000000
        /\ rt.deg[1] - rt.lat * 1000000 < rt.deg[1] - south

C10_Witness ==
  /\ rt.pc = "deg"
  /\ rt.zoom > 2
  /\ rt.tile[1] > 0
  /\ rt.tile[2] > 0
  /\ rt.deg[1] > rt.lat * 1000000

=============================================================================
